---- MODULE Spec2Model ----
(***************************************************************************)
(* A model of the Telegram relay bot of src/bot.py: the authorization      *)
(* gate, the per-user conversation store, the request orchestrator and its *)
(* entry points, and the two pure text functions of the output sanitizer   *)
(* (clean_response, split_message); and of the webhook transport of        *)
(* src/lambda_handler.py: the /health and /webhook routes and the lazily   *)
(* built application (get_application).                                    *)
(*                                                                         *)
(* A Python str is a sequence of one-character strings.  The regular       *)
(* expressions of clean_response are modelled character by character.      *)
(***************************************************************************)
EXTENDS Integers, Sequences, FiniteSets, TLC

\* Python values of different types never compare equal: the values that the
\* code mixes (None, str, int) carry their type.
None == [none |-> TRUE]
PyStr(s) == [str |-> s]
PyInt(n) == [int |-> n]
IsStr(v) == DOMAIN v = {"str"}
IsInt(v) == DOMAIN v = {"int"}

(***************************************************************************)
(* The process state.                                                      *)
(***************************************************************************)
VARIABLES
    env_ALLOWED_USER_ID,  \* os.getenv("ALLOWED_USER_ID"): None or a string
    ALLOWED_USER_ID,      \* the module global of that name (lines 32-34)
    user_conversations,   \* the dict user id -> conversation id (line 29)
    conversations,        \* upstream: the conversations created, id = index
    n_updates,            \* updates received so far
    task,                 \* the handler coroutine running in each slot
    arg_text,             \* a call of a text function: the argument text
    arg_max_length,       \* a call of split_message: the argument max_length
    result,               \* the value the call returned
    result2,              \* clean_response applied to result
    call,                 \* which function has been called ("bot": the handlers
                          \* run, "webhook": the transport runs)
    env_TELEGRAM_BOT_TOKEN,     \* os.getenv("TELEGRAM_BOT_TOKEN")
    env_OPENAI_API_KEY,         \* os.getenv("OPENAI_API_KEY")
    bot_imported,               \* lambda_handler's create_application is not None
    bot_application,            \* lambda_handler.bot_application (line 56)
    _initialized,               \* lambda_handler._initialized (line 57)
    http,                       \* the request coroutine running in each slot
    n_requests,                 \* requests received so far
    create_application_calls,   \* calls of create_application so far
    initialize_calls,           \* calls of bot_application.initialize() so far
    initialize_returns          \* of which returned (did not raise)

hookVars == <<env_TELEGRAM_BOT_TOKEN, env_OPENAI_API_KEY, bot_imported, bot_application,
              _initialized, http, n_requests, create_application_calls,
              initialize_calls, initialize_returns>>

vars == <<env_ALLOWED_USER_ID, ALLOWED_USER_ID, user_conversations, conversations,
          n_updates, task,
          arg_text, arg_max_length, result, result2, call, hookVars>>

botVars == <<env_ALLOWED_USER_ID, ALLOWED_USER_ID, user_conversations, conversations,
             n_updates, task>>

fnVars == <<arg_text, arg_max_length, result, result2, call>>

(***************************************************************************)
(* Bounds of the model.                                                    *)
(***************************************************************************)
\* At most MaxUpdates updates are received in one run of the process.
MaxUpdates == 3
\* split_message inputs: texts of at most MaxTextLen characters.
MaxTextLen == 6
\* split_message inputs: max_length ranges over 1..MaxLimit.
MaxLimit == 3
\* clean_response inputs: at most MaxTokens tokens ...
MaxTokens == 3
\* ... wrapped at most MaxNest times as the label of a markdown link.
MaxNest == 2
\* At most MaxRequests HTTP requests are received in one run of the process.
MaxRequests == 4

(***************************************************************************)
(* Text helpers: what str.strip, str.split and the re module compute.      *)
(***************************************************************************)
\* The whitespace characters of the model's alphabets (str.isspace, \s).
Whitespace == {" ", "\n", "\t"}

\* Least index j >= from with text[j] \in S, or 0 when there is none.
FirstIndex(text, from, S) ==
    IF \E j \in from..Len(text) : text[j] \in S
    THEN CHOOSE j \in from..Len(text) :
             /\ text[j] \in S
             /\ \A k \in from..(j - 1) : text[k] \notin S
    ELSE 0

\* Greatest index j with text[j] \notin S, or 0 when there is none.
LastIndexNotIn(text, S) ==
    IF \E j \in 1..Len(text) : text[j] \notin S
    THEN CHOOSE j \in 1..Len(text) :
             /\ text[j] \notin S
             /\ \A k \in (j + 1)..Len(text) : text[k] \in S
    ELSE 0

\* text[i..] starts with the literal lit.
StartsWith(text, i, lit) ==
    /\ i >= 1
    /\ i + Len(lit) - 1 <= Len(text)
    /\ \A k \in 1..Len(lit) : text[i + k - 1] = lit[k]

\* str.strip(): leading and trailing whitespace removed.
strip(text) ==
    LET last == LastIndexNotIn(text, Whitespace)
        first == FirstIndex(text, 1, {text[j] : j \in 1..Len(text)} \ Whitespace)
    IN  IF last = 0 THEN <<>> ELSE SubSeq(text, first, last)

\* str.split(sep) with an explicit one-character separator: empty pieces kept.
RECURSIVE split(_, _)
split(text, sep) ==
    LET idx == FirstIndex(text, 1, {sep})
    IN  IF idx = 0
        THEN <<text>>
        ELSE <<SubSeq(text, 1, idx - 1)>>
                 \o split(SubSeq(text, idx + 1, Len(text)), sep)

(***************************************************************************)
(* split_message (src/bot.py:55-92).  The loop state is the pair of the    *)
(* code's locals: chunks (the list built so far) and current_chunk.        *)
(***************************************************************************)
\* chunks.append(current_chunk) when current_chunk is not empty.
AppendIfAny(chunks, current) ==
    IF current # <<>> THEN Append(chunks, current) ELSE chunks

\* A word loop that loses the word that did not fit.
WordStep_drop(st, word, max_length) ==
    IF Len(st.current) + Len(word) + 1 > max_length
    THEN [chunks |-> AppendIfAny(st.chunks, st.current), current |-> <<>>]
    ELSE [chunks |-> st.chunks, current |-> strip(st.current \o <<" ">> \o word)]

\* One iteration of `for word in line.split(' ')` (lines 72-78).
WordStep(st, word, max_length) ==
    IF Len(st.current) + Len(word) + 1 > max_length
    THEN [chunks |-> AppendIfAny(st.chunks, st.current), current |-> word]
    ELSE [chunks |-> st.chunks, current |-> strip(st.current \o <<" ">> \o word)]

RECURSIVE WordLoop(_, _, _, _)
WordLoop(st, words, k, max_length) ==
    IF k > Len(words)
    THEN st
    ELSE WordLoop(WordStep(st, words[k], max_length), words, k + 1, max_length)

\* One iteration of `for line in text.split('\n')` (lines 63-87).
LineStep(st, line, max_length) ==
    IF Len(line) > max_length
    THEN WordLoop([chunks |-> AppendIfAny(st.chunks, st.current), current |-> <<>>],
                  split(line, " "), 1, max_length)
    ELSE LET separator == IF st.current # <<>> THEN <<"\n">> ELSE <<>>
         IN  IF Len(st.current) + Len(separator) + Len(line) > max_length
             THEN [chunks |-> AppendIfAny(st.chunks, st.current), current |-> line]
             ELSE [chunks |-> st.chunks,
                   current |-> strip(st.current \o separator \o line)]

RECURSIVE LineLoop(_, _, _, _)
LineLoop(st, lines, k, max_length) ==
    IF k > Len(lines)
    THEN st
    ELSE LineLoop(LineStep(st, lines[k], max_length), lines, k + 1, max_length)

\* A split_message that returns no chunk for the empty text.
split_message_skip_empty(text, max_length) ==
    IF text = <<>>
    THEN <<>>
    ELSE IF Len(text) <= max_length
         THEN <<text>>
         ELSE LET st == LineLoop([chunks |-> <<>>, current |-> <<>>],
                                 split(text, "\n"), 1, max_length)
              IN  AppendIfAny(st.chunks, st.current)

\* split_message(text, max_length): the list of chunks.
split_message(text, max_length) ==
    IF Len(text) <= max_length
    THEN <<text>>
    ELSE LET st == LineLoop([chunks |-> <<>>, current |-> <<>>],
                            split(text, "\n"), 1, max_length)
         IN  AppendIfAny(st.chunks, st.current)

(***************************************************************************)
(* clean_response (src/bot.py:95-110).                                     *)
(***************************************************************************)
\* The characters that end a raw URL: [^\s<\)] is every other character.
UrlTerminators == Whitespace \cup {"<", ")"}

\* r'\[([^\]]+)\]\([^\)]+\)' matched at index i: the index of the closing
\* bracket of the label, or 0 when the label part does not match at i.
\* [^\]]+ is greedy and cannot cross a "]", so the label runs to the first "]".
LinkLabelEnd(text, i) ==
    IF i <= Len(text) /\ text[i] = "["
    THEN LET j == FirstIndex(text, i + 1, {"]"})
         IN  IF j >= i + 2 THEN j ELSE 0
    ELSE 0

\* The index of the last character of the link matched at i, or 0.
LinkMatchEnd(text, i) ==
    LET j == LinkLabelEnd(text, i)
    IN  IF j > 0 /\ j + 1 <= Len(text) /\ text[j + 1] = "("
        THEN LET k == FirstIndex(text, j + 2, {")"})
             IN  IF k >= j + 3 THEN k ELSE 0
        ELSE 0

\* The index of the last character of the greedy run [^\s<\)]+ that starts at
\* from, or 0 when the run is empty.
UrlRunEnd(text, from) ==
    IF from > Len(text) \/ text[from] \in UrlTerminators
    THEN 0
    ELSE LET t == FirstIndex(text, from, UrlTerminators)
         IN  IF t = 0 THEN Len(text) ELSE t - 1

\* r'https?://[^\s<\)]+' matched at index i: the index of its last character, or 0.
HttpMatchEnd(text, i) ==
    IF StartsWith(text, i, <<"h", "t", "t", "p", "s", ":", "/", "/">>)
    THEN UrlRunEnd(text, i + 8)
    ELSE IF StartsWith(text, i, <<"h", "t", "t", "p", ":", "/", "/">>)
         THEN UrlRunEnd(text, i + 7)
         ELSE 0

\* r'www\.[^\s<\)]+' matched at index i: the index of its last character, or 0.
WwwMatchEnd(text, i) ==
    IF StartsWith(text, i, <<"w", "w", "w", ".">>)
    THEN UrlRunEnd(text, i + 4)
    ELSE 0

\* The start of the leftmost match at or after pos, or 0 (re scans left to right).
LeftmostLink(text, pos) ==
    IF \E i \in pos..Len(text) : LinkMatchEnd(text, i) > 0
    THEN CHOOSE i \in pos..Len(text) :
             /\ LinkMatchEnd(text, i) > 0
             /\ \A k \in pos..(i - 1) : LinkMatchEnd(text, k) = 0
    ELSE 0

LeftmostHttp(text, pos) ==
    IF \E i \in pos..Len(text) : HttpMatchEnd(text, i) > 0
    THEN CHOOSE i \in pos..Len(text) :
             /\ HttpMatchEnd(text, i) > 0
             /\ \A k \in pos..(i - 1) : HttpMatchEnd(text, k) = 0
    ELSE 0

LeftmostWww(text, pos) ==
    IF \E i \in pos..Len(text) : WwwMatchEnd(text, i) > 0
    THEN CHOOSE i \in pos..Len(text) :
             /\ WwwMatchEnd(text, i) > 0
             /\ \A k \in pos..(i - 1) : WwwMatchEnd(text, k) = 0
    ELSE 0

\* re.sub(r'\[([^\]]+)\]\([^\)]+\)', r'\1', text) from pos on (line 101):
\* every non-overlapping match, left to right, replaced by its group 1.
RECURSIVE SubLinks(_, _)
SubLinks(text, pos) ==
    LET i == LeftmostLink(text, pos)
    IN  IF i = 0
        THEN SubSeq(text, pos, Len(text))
        ELSE SubSeq(text, pos, i - 1)
                 \o SubSeq(text, i + 1, LinkLabelEnd(text, i) - 1)
                 \o SubLinks(text, LinkMatchEnd(text, i) + 1)

\* re.sub(r'https?://[^\s<\)]+', '', text) from pos on (line 107).
RECURSIVE SubHttp(_, _)
SubHttp(text, pos) ==
    LET i == LeftmostHttp(text, pos)
    IN  IF i = 0
        THEN SubSeq(text, pos, Len(text))
        ELSE SubSeq(text, pos, i - 1) \o SubHttp(text, HttpMatchEnd(text, i) + 1)

\* re.sub(r'www\.[^\s<\)]+', '', text) from pos on (line 108).
RECURSIVE SubWww(_, _)
SubWww(text, pos) ==
    LET i == LeftmostWww(text, pos)
    IN  IF i = 0
        THEN SubSeq(text, pos, Len(text))
        ELSE SubSeq(text, pos, i - 1) \o SubWww(text, WwwMatchEnd(text, i) + 1)

\* A variant of clean_response that returns the text without the final strip.
clean_response_unstripped(text) ==
    SubWww(SubHttp(SubLinks(text, 1), 1), 1)

\* A variant of clean_response that removes the URLs first and the links last.
clean_response_links_last(text) ==
    strip(SubLinks(SubWww(SubHttp(text, 1), 1), 1))

\* clean_response(text): links, then http(s) URLs, then www URLs, then strip.
clean_response(text) ==
    strip(SubWww(SubHttp(SubLinks(text, 1), 1), 1))

(***************************************************************************)
(* Authorization gate (src/bot.py:31-52).                                  *)
(***************************************************************************)
Users == {1, 2}

\* The settings of the ALLOWED_USER_ID environment variable: unset, the empty
\* string, and an integer string (with a leading zero).
EnvSettings == {None, PyStr(<<>>), PyStr(<<"0", "2">>)}

DigitValue(c) ==
    CASE c = "0" -> 0 [] c = "1" -> 1 [] c = "2" -> 2 [] c = "3" -> 3 [] c = "4" -> 4
      [] c = "5" -> 5 [] c = "6" -> 6 [] c = "7" -> 7 [] c = "8" -> 8 [] c = "9" -> 9

\* int(s) for a string of decimal digits.
RECURSIVE int(_)
int(s) ==
    IF Len(s) = 1
    THEN DigitValue(s[1])
    ELSE 10 * int(SubSeq(s, 1, Len(s) - 1)) + DigitValue(s[Len(s)])

\* Lines 32-34: the global after import.  `if ALLOWED_USER_ID:` is false for
\* None and for the empty string, and both are then left as they are.
LoadAllowedUserId(env) ==
    IF env # None /\ env # PyStr(<<>>) THEN PyInt(int(env.str)) ELSE env

\* A gate that lets every sender through.
is_user_allowed_open(user_id) == TRUE

\* is_user_allowed(user_id), lines 37-41.  An int never equals a str.
is_user_allowed(user_id) ==
    IF ALLOWED_USER_ID = None
    THEN TRUE
    ELSE PyInt(user_id) = ALLOWED_USER_ID

(***************************************************************************)
(* Conversation store (src/bot.py:147-164) and the upstream API.           *)
(***************************************************************************)
\* conversation_id is None: no handle (handles are the positive integers).
NoConversation == 0

\* The items of the conversations.create request (lines 153-159).  Upstream, a
\* conversation is its items; the model also notes whose message created it.
SeedItems == <<[type |-> "message", role |-> "system", content |-> "SYSTEM_INSTRUCTION"]>>

\* A store that does not look the user up: every call creates a conversation.
get_or_create_conversation_uncached(user_id, create_ok) ==
    IF create_ok
    THEN [conversation_id |-> Len(conversations) + 1,
          store |-> [u \in DOMAIN user_conversations \cup {user_id} |->
                        IF u = user_id THEN Len(conversations) + 1
                        ELSE user_conversations[u]],
          remote |-> Append(conversations, [items |-> SeedItems, for |-> user_id]),
          create_called |-> TRUE]
    ELSE [conversation_id |-> NoConversation,
          store |-> user_conversations,
          remote |-> conversations,
          create_called |-> TRUE]

\* A store that writes its entry before the creation call answers: a creation
\* that raises leaves an entry without a handle.
get_or_create_conversation_store_first(user_id, create_ok) ==
    IF user_id \in DOMAIN user_conversations
    THEN [conversation_id |-> user_conversations[user_id],
          store |-> user_conversations,
          remote |-> conversations,
          create_called |-> FALSE]
    ELSE [conversation_id |-> IF create_ok THEN Len(conversations) + 1
                              ELSE NoConversation,
          store |-> [u \in DOMAIN user_conversations \cup {user_id} |->
                        IF u # user_id THEN user_conversations[u]
                        ELSE IF create_ok THEN Len(conversations) + 1
                             ELSE NoConversation],
          remote |-> IF create_ok
                     THEN Append(conversations, [items |-> SeedItems, for |-> user_id])
                     ELSE conversations,
          create_called |-> TRUE]

\* get_or_create_conversation(user_id) when the upstream call, if one is made,
\* answers (create_ok) or raises: the handle returned (NoConversation when it raised),
\* the dict and the upstream conversations after it, and whether it called
\* conversations.create.
get_or_create_conversation(user_id, create_ok) ==
    IF user_id \in DOMAIN user_conversations
    THEN [conversation_id |-> user_conversations[user_id],
          store |-> user_conversations,
          remote |-> conversations,
          create_called |-> FALSE]
    ELSE IF create_ok
         THEN [conversation_id |-> Len(conversations) + 1,
               store |-> [u \in DOMAIN user_conversations \cup {user_id} |->
                             IF u = user_id THEN Len(conversations) + 1
                             ELSE user_conversations[u]],
               remote |-> Append(conversations, [items |-> SeedItems, for |-> user_id]),
               create_called |-> TRUE]
         ELSE [conversation_id |-> NoConversation,
               store |-> user_conversations,
               remote |-> conversations,
               create_called |-> TRUE]

(***************************************************************************)
(* The completion API's answers and the orchestrator (src/bot.py:167-209). *)
(***************************************************************************)
\* split_message's default max_length (Telegram's limit).
DEFAULT_MAX_LENGTH == 4096

LongLine == [i \in 1..2100 |-> "a"]

\* The output_text values the completion API answers with: a text that is
\* empty once cleaned, and a text of two lines, with a link, a URL, tags and
\* stray angle brackets, that needs two messages.
ModelOutputs ==
    << <<" ", "w", "w", "w", ".", "c">>,
       LongLine \o <<" ", "<", "b", ">", "[", "a", "]", "(", "b", ")", "<", "/", "b", ">",
                      " ", "<", ">", " ", "<", " ", "a", " ", ">", " ", "<", "<", "i", ">", ">",
                      "\n">>
                \o LongLine \o <<" ", "<", "i", " ", "w", "w", "w", ".", "c">> >>

\* Lines 192-195: chunks = split_message(clean_response(response.output_text)),
\* for each of the answers from the k-th on.
RECURSIVE ChunksFrom(_)
ChunksFrom(k) ==
    IF k > Len(ModelOutputs)
    THEN <<>>
    ELSE <<split_message(clean_response(ModelOutputs[k]), DEFAULT_MAX_LENGTH)>>
             \o ChunksFrom(k + 1)

OutputChunks == ChunksFrom(1)

\* r'<[^>]+>' matched at index i: the index of the closing ">", or 0.  [^>]+
\* cannot cross a ">", so the tag runs to the first ">" and must not be empty.
TagMatchEnd(text, i) ==
    IF i <= Len(text) /\ text[i] = "<"
    THEN LET j == FirstIndex(text, i + 1, {">"})
         IN  IF j >= i + 2 THEN j ELSE 0
    ELSE 0

LeftmostTag(text, pos) ==
    IF \E i \in pos..Len(text) : TagMatchEnd(text, i) > 0
    THEN CHOOSE i \in pos..Len(text) :
             /\ TagMatchEnd(text, i) > 0
             /\ \A k \in pos..(i - 1) : TagMatchEnd(text, k) = 0
    ELSE 0

\* re.sub(r'<[^>]+>', '', chunk) from pos on (line 205).
RECURSIVE SubTags(_, _)
SubTags(text, pos) ==
    LET i == LeftmostTag(text, pos)
    IN  IF i = 0
        THEN SubSeq(text, pos, Len(text))
        ELSE SubSeq(text, pos, i - 1) \o SubTags(text, TagMatchEnd(text, i) + 1)

\* plain_text for every chunk of every answer (line 205).
PlainChunks ==
    [r \in 1..Len(ModelOutputs) |->
        [i \in 1..Len(OutputChunks[r]) |-> SubTags(OutputChunks[r][i], 1)]]

\* The concurrently running handler coroutines (one per update being processed).
Tasks == {1, 2}

Kinds == {"start", "newchat", "search", "text"}

IdleTask ==
    [pc |-> "idle", user |-> 0, kind |-> "none", args |-> FALSE,
     reply |-> "none", use_web_search |-> FALSE, create_called |-> FALSE,
     conversation_id |-> NoConversation, request |-> None, response |-> 0, i |-> 0,
     plain_text |-> <<>>, sent |-> <<>>, outcome |-> "none",
     \* history: the user had no stored handle when send_to_openai was entered
     entered_without_handle |-> FALSE]

\* The handler returned, or an exception left it (caught by process_update).
Finished(t, how) == [t EXCEPT !.pc = "done", !.outcome = how]

\* The handler goes on to await update.message.reply_text(<fixed text>) and
\* returns after it.
AwaitReply(t, which) == [t EXCEPT !.pc = "reply", !.reply = which]

\* A chunk loop that ends after its first chunk.
NextChunk_stop(t) == Finished(t, "returned")

\* After chunk i was delivered: the next iteration of `for chunk in chunks`.
NextChunk(t) ==
    IF t.i < Len(OutputChunks[t.response])
    THEN [t EXCEPT !.pc = "send_html", !.i = t.i + 1]
    ELSE Finished(t, "returned")

\* A send_to_openai without its try: the exception leaves the handler.
OnException_propagate(t) == Finished(t, "raised")

\* An exception inside the try of send_to_openai (lines 174-206) is caught at
\* line 207: the handler goes on to await the apology's reply_text (line 209).
OnException(t) == [t EXCEPT !.pc = "apology"]

\* The except clause of the chunk loop (lines 202-206): plain_text is the
\* chunk without its tags, and its reply_text is awaited.
PlainFallback(t) ==
    [t EXCEPT !.pc = "send_plain", !.plain_text = PlainChunks[t.response][t.i]]

\* A /newchat that answers but leaves the entry in the dict.
newchat_store_kept(user_id) == user_conversations

\* A /newchat that empties the whole dict.
newchat_store_all(user_id) ==
    IF user_id \in DOMAIN user_conversations THEN <<>> ELSE user_conversations

\* newchat_command up to its await (lines 233-238): the dict and the reply.
newchat_store(user_id) ==
    IF user_id \in DOMAIN user_conversations
    THEN [u \in DOMAIN user_conversations \ {user_id} |-> user_conversations[u]]
    ELSE user_conversations

newchat_reply(user_id) ==
    IF user_id \in DOMAIN user_conversations THEN "cleared" ELSE "nothing_to_clear"

\* send_to_openai up to its first await, send_chat_action (lines 170-172).
EnterSendToOpenai(t) ==
    [t EXCEPT !.pc = "typing",
              !.entered_without_handle = t.user \notin DOMAIN user_conversations]

\* An update arrives and process_update runs the handler registered for it
\* (create_application, lines 280-286): require_auth's wrapper and the handler it
\* wraps, up to the first await (lines 47-51, 212-251, 170-172).
Wrapper(t, user_id, kind, args) ==
    /\ call = "bot"
    /\ task[t].pc = "idle"
    /\ \A other \in Tasks : other < t => task[other].pc # "idle"
    /\ n_updates < MaxUpdates
    /\ n_updates' = n_updates + 1
    /\ LET me == [IdleTask EXCEPT !.user = user_id, !.kind = kind, !.args = args] IN
       IF ~is_user_allowed(user_id)
       THEN /\ task' = [task EXCEPT ![t] = AwaitReply(me, "refusal")]
            /\ UNCHANGED user_conversations
       ELSE CASE kind = "start" ->
                   /\ task' = [task EXCEPT ![t] = AwaitReply(me, "welcome")]
                   /\ UNCHANGED user_conversations
              [] kind = "newchat" ->
                   /\ task' = [task EXCEPT ![t] = AwaitReply(me, newchat_reply(user_id))]
                   /\ user_conversations' = newchat_store(user_id)
              [] kind = "search" ->
                   /\ task' = [task EXCEPT ![t] =
                                  IF ~args
                                  THEN AwaitReply(me, "usage")
                                  ELSE EnterSendToOpenai([me EXCEPT !.use_web_search = TRUE])]
                   /\ UNCHANGED user_conversations
              [] kind = "text" ->
                   /\ task' = [task EXCEPT ![t] = EnterSendToOpenai(me)]
                   /\ UNCHANGED user_conversations
    /\ UNCHANGED <<env_ALLOWED_USER_ID, ALLOWED_USER_ID, conversations>>
    /\ UNCHANGED fnVars
    /\ UNCHANGED hookVars

\* The awaited reply_text of a fixed text completes (delivered) or raises; the
\* handler has nothing after it and no try around it.
Reply(t, delivered) ==
    /\ call = "bot"
    /\ task[t].pc = "reply"
    /\ task' = [task EXCEPT ![t] =
                   IF delivered
                   THEN Finished([@ EXCEPT !.sent = Append(@, <<task[t].reply, 0>>)],
                                 "returned")
                   ELSE Finished(@, "raised")]
    /\ UNCHANGED <<env_ALLOWED_USER_ID, ALLOWED_USER_ID, user_conversations,
                   conversations, n_updates>>
    /\ UNCHANGED fnVars
    /\ UNCHANGED hookVars

\* Request parameters that declare the web-search tool on every request.
ApiParams_always_tools(conversation_id, use_web_search) ==
    [conversation |-> conversation_id, tools |-> <<"web_search">>]

\* api_params (lines 177-186): the handle, and the "tools" entry that is only
\* set when use_web_search is true (no tool declared: the empty list).
ApiParams(conversation_id, use_web_search) ==
    [conversation |-> conversation_id,
     tools |-> IF use_web_search THEN <<"web_search">> ELSE <<>>]

\* send_to_openai from the return of send_chat_action (line 172, outside the
\* try) to its next await: get_or_create_conversation, responses.create,
\* clean_response and split_message run without suspending (the OpenAI client
\* is the synchronous one), then the first chunk's reply_text is awaited.
Typing(t, action_ok, create_ok, completion_ok, r) ==
    /\ call = "bot"
    /\ task[t].pc = "typing"
    /\ LET me == task[t]
           got == get_or_create_conversation(me.user, create_ok)
           api_params == ApiParams(got.conversation_id, me.use_web_search)
       IN
       IF ~action_ok
       THEN /\ task' = [task EXCEPT ![t] = Finished(me, "raised")]
            /\ UNCHANGED <<user_conversations, conversations>>
       ELSE /\ user_conversations' = got.store
            /\ conversations' = got.remote
            /\ task' = [task EXCEPT ![t] =
                  LET tried == [me EXCEPT !.create_called = got.create_called,
                                          !.conversation_id = got.conversation_id]
                      called == [tried EXCEPT !.request = api_params]
                  IN  IF got.conversation_id = NoConversation
                      THEN OnException(tried)
                      ELSE IF ~completion_ok
                           THEN OnException(called)
                           ELSE IF OutputChunks[r] = <<>>
                                THEN Finished([called EXCEPT !.response = r], "returned")
                                ELSE [called EXCEPT !.response = r, !.i = 1,
                                                    !.pc = "send_html"]]
    /\ UNCHANGED <<env_ALLOWED_USER_ID, ALLOWED_USER_ID, n_updates>>
    /\ UNCHANGED fnVars
    /\ UNCHANGED hookVars

\* reply_text(chunk, parse_mode=HTML) completes or raises (lines 200-203).
SendHtml(t, delivered) ==
    /\ call = "bot"
    /\ task[t].pc = "send_html"
    /\ task' = [task EXCEPT ![t] =
                   IF delivered
                   THEN NextChunk([@ EXCEPT !.sent = Append(@, <<"html", task[t].i>>)])
                   ELSE PlainFallback(@)]
    /\ UNCHANGED <<env_ALLOWED_USER_ID, ALLOWED_USER_ID, user_conversations,
                   conversations, n_updates>>
    /\ UNCHANGED fnVars
    /\ UNCHANGED hookVars

\* The plain-text resend of the chunk completes or raises (lines 205-208);
\* plain_text is not read again.
SendPlain(t, delivered) ==
    /\ call = "bot"
    /\ task[t].pc = "send_plain"
    /\ task' = [task EXCEPT ![t] =
                   IF delivered
                   THEN NextChunk([@ EXCEPT !.sent = Append(@, <<"plain", task[t].i>>),
                                            !.plain_text = <<>>])
                   ELSE OnException([@ EXCEPT !.plain_text = <<>>])]
    /\ UNCHANGED <<env_ALLOWED_USER_ID, ALLOWED_USER_ID, user_conversations,
                   conversations, n_updates>>
    /\ UNCHANGED fnVars
    /\ UNCHANGED hookVars

\* The except branch's reply_text completes or raises (line 209).
Apology(t, delivered) ==
    /\ call = "bot"
    /\ task[t].pc = "apology"
    /\ task' = [task EXCEPT ![t] =
                   IF delivered
                   THEN Finished([@ EXCEPT !.sent = Append(@, <<"apology", 0>>)],
                                 "returned")
                   ELSE Finished(@, "raised")]
    /\ UNCHANGED <<env_ALLOWED_USER_ID, ALLOWED_USER_ID, user_conversations,
                   conversations, n_updates>>
    /\ UNCHANGED fnVars
    /\ UNCHANGED hookVars

\* process_update is over for the update: the coroutine is gone.
Return(t) ==
    /\ call = "bot"
    /\ task[t].pc = "done"
    /\ task' = [task EXCEPT ![t] = IdleTask]
    /\ UNCHANGED <<env_ALLOWED_USER_ID, ALLOWED_USER_ID, user_conversations,
                   conversations, n_updates>>
    /\ UNCHANGED fnVars
    /\ UNCHANGED hookVars

\* The request coroutines of the transport (one per request being served).
Requests == {1, 2}

\* No request is being served in the slot.
IdleRequest ==
    [pc |-> "idle", route |-> "none",
     body |-> [parses |-> FALSE, is_dict |-> FALSE, keys |-> {}],
     status_code |-> 0, content |-> "none", process_update_called |-> FALSE]

\* The transport while the handlers run: both credentials are set, the first
\* /webhook request has built the application and initialized it.
HookServing ==
    /\ env_TELEGRAM_BOT_TOKEN = PyStr(<<"k">>)
    /\ env_OPENAI_API_KEY = PyStr(<<"k">>)
    /\ bot_imported = TRUE
    /\ bot_application = [application |-> 1]
    /\ _initialized = TRUE
    /\ http = [q \in Requests |-> IdleRequest]
    /\ n_requests = 0
    /\ create_application_calls = 1
    /\ initialize_calls = 1
    /\ initialize_returns = 1

\* The process after import: the environment is read once, nothing is stored.
Init ==
    /\ env_ALLOWED_USER_ID \in EnvSettings
    /\ ALLOWED_USER_ID = LoadAllowedUserId(env_ALLOWED_USER_ID)
    /\ user_conversations = <<>>
    /\ conversations = <<>>
    /\ n_updates = 0
    /\ task = [t \in Tasks |-> IdleTask]
    /\ arg_text = <<>>
    /\ arg_max_length = DEFAULT_MAX_LENGTH
    /\ result = <<>>
    /\ result2 = <<>>
    /\ call = "bot"
    /\ HookServing

Next ==
    \/ \E t \in Tasks, u \in Users, k \in Kinds \ {"search"} : Wrapper(t, u, k, FALSE)
    \/ \E t \in Tasks, u \in Users, a \in BOOLEAN : Wrapper(t, u, "search", a)
    \/ \E t \in Tasks, d \in BOOLEAN : Reply(t, d)
    \/ \E t \in Tasks, a, c, k \in BOOLEAN, r \in 1..Len(ModelOutputs) :
           Typing(t, a, c, k, r)
    \/ \E t \in Tasks, d \in BOOLEAN : SendHtml(t, d)
    \/ \E t \in Tasks, d \in BOOLEAN : SendPlain(t, d)
    \/ \E t \in Tasks, d \in BOOLEAN : Apology(t, d)
    \/ \E t \in Tasks : Return(t)

Spec == Init /\ [][Next]_vars

(***************************************************************************)
(* Calls of the two text functions on their own: the arguments are drawn   *)
(* in the initial state and the call is the step.                          *)
(***************************************************************************)
\* The bot's part of the state when only a text function is called.
BotAtRest ==
    /\ env_ALLOWED_USER_ID = None
    /\ ALLOWED_USER_ID = LoadAllowedUserId(env_ALLOWED_USER_ID)
    /\ user_conversations = <<>>
    /\ conversations = <<>>
    /\ n_updates = 0
    /\ task = [t \in Tasks |-> IdleTask]

\* The transport's part of the state when only a text function is called:
\* lambda_handler as imported, no request yet.
HookAtRest ==
    /\ env_TELEGRAM_BOT_TOKEN = PyStr(<<"k">>)
    /\ env_OPENAI_API_KEY = PyStr(<<"k">>)
    /\ bot_imported = TRUE
    /\ bot_application = None
    /\ _initialized = FALSE
    /\ http = [q \in Requests |-> IdleRequest]
    /\ n_requests = 0
    /\ create_application_calls = 0
    /\ initialize_calls = 0
    /\ initialize_returns = 0

\* Every text of at most n characters over the alphabet.
RECURSIVE TextsUpTo(_, _)
TextsUpTo(alphabet, n) ==
    IF n = 0
    THEN {<<>>}
    ELSE LET shorter == TextsUpTo(alphabet, n - 1)
         IN  shorter \cup {Append(s, c) : s \in shorter, c \in alphabet}

\* split_message's arguments: two letters, the space and the newline.
SplitAlphabet == {"a", "b", " ", "\n"}

InitSplit ==
    /\ BotAtRest
    /\ HookAtRest
    /\ arg_text \in TextsUpTo(SplitAlphabet, MaxTextLen)
    /\ arg_max_length \in 1..MaxLimit
    /\ result = <<>>
    /\ result2 = <<>>
    /\ call = "none"

CallSplit ==
    /\ call = "none"
    /\ call' = "split_message"
    /\ result' = split_message(arg_text, arg_max_length)
    /\ UNCHANGED <<arg_text, arg_max_length, result2>>
    /\ UNCHANGED botVars
    /\ UNCHANGED hookVars

SpecSplit == InitSplit /\ [][CallSplit]_vars

\* clean_response's arguments are made of these tokens: the characters its
\* patterns look for, a letter, and the two URL prefixes.
CleanTokens ==
    { <<"[">>, <<"]">>, <<"(">>, <<")">>, <<"a">>, <<" ">>, <<"<">>,
      <<"h", "t", "t", "p", ":", "/", "/">>, <<"w", "w", "w", ".">> }

\* Every concatenation of at most n tokens.
RECURSIVE TokenTexts(_)
TokenTexts(n) ==
    IF n = 0
    THEN {<<>>}
    ELSE LET shorter == TokenTexts(n - 1)
         IN  shorter \cup {s \o t : s \in shorter, t \in CleanTokens}

\* The link targets of the generated links.
LinkTargets == { <<"b">>, <<"h", "t", "t", "p", "s", ":", "/", "/", "b">> }

\* The markdown link [label](target).
MarkdownLink(label, target) == <<"[">> \o label \o <<"]", "(">> \o target \o <<")">>

\* The token texts, each also wrapped up to k times as the label of a link.
RECURSIVE LinkedTexts(_)
LinkedTexts(k) ==
    IF k = 0
    THEN TokenTexts(MaxTokens)
    ELSE LET inner == LinkedTexts(k - 1)
         IN  inner \cup {MarkdownLink(w, u) : w \in inner, u \in LinkTargets}

\* The pieces a link can stand between, or enclose as its label: the tokens, and
\* the halves of the two URL prefixes.
UrlPieces ==
    CleanTokens \cup { <<"w">>, <<"w", "w", ".">>, <<"h", "t", "t", "p">>, <<":", "/", "/">> }

\* One link between two pieces (either may be missing): removing the link joins
\* what stood before it, its label and what stood after it.
EmbeddedLinks ==
    { before \o MarkdownLink(label, u) \o after :
          before \in UrlPieces \cup {<<>>}, label \in UrlPieces,
          after \in UrlPieces \cup {<<>>}, u \in LinkTargets }

InitClean ==
    /\ BotAtRest
    /\ HookAtRest
    /\ arg_text \in LinkedTexts(MaxNest) \cup EmbeddedLinks
    /\ arg_max_length = DEFAULT_MAX_LENGTH
    /\ result = <<>>
    /\ result2 = <<>>
    /\ call = "none"

\* response_text = clean_response(response_text)
CallClean ==
    /\ call = "none"
    /\ call' = "clean_response"
    /\ result' = clean_response(arg_text)
    /\ UNCHANGED <<arg_text, arg_max_length, result2>>
    /\ UNCHANGED botVars
    /\ UNCHANGED hookVars

\* clean_response applied to its own output.
CallCleanAgain ==
    /\ call = "clean_response"
    /\ call' = "clean_response_twice"
    /\ result2' = clean_response(result)
    /\ UNCHANGED <<arg_text, arg_max_length, result>>
    /\ UNCHANGED botVars
    /\ UNCHANGED hookVars

NextClean == CallClean \/ CallCleanAgain

SpecClean == InitClean /\ [][NextClean]_vars

(***************************************************************************)
(* The webhook transport (src/lambda_handler.py) and create_application    *)
(* (src/bot.py:254-288).  A request coroutine runs without interruption    *)
(* from one await to the next.                                             *)
(***************************************************************************)
\* The settings of a credential variable: unset, empty, set.
CredentialSettings == {None, PyStr(<<>>), PyStr(<<"k">>)}

\* `not token`: the variable is unset or empty.
Missing(setting) == setting = None \/ setting = PyStr(<<>>)

\* A create_application that does not look at OPENAI_API_KEY.
create_application_token_only(token, api_key, n) ==
    IF Missing(token)
    THEN [raised |-> "TELEGRAM_BOT_TOKEN not found in environment variables!"]
    ELSE [application |-> n]

\* create_application() (bot.py lines 254-288) as its n-th call: the ValueError
\* it raises, or the application it returns.
create_application(token, api_key, n) ==
    IF Missing(token)
    THEN [raised |-> "TELEGRAM_BOT_TOKEN not found in environment variables!"]
    ELSE IF Missing(api_key)
         THEN [raised |-> "OPENAI_API_KEY not found in environment variables!"]
         ELSE [application |-> n]

\* The request bodies: not JSON; JSON but not an object; an object with and
\* without the keys update_id and message.
Bodies ==
    { [parses |-> FALSE, is_dict |-> FALSE, keys |-> {}],
      [parses |-> TRUE, is_dict |-> FALSE, keys |-> {}] }
    \cup { [parses |-> TRUE, is_dict |-> TRUE, keys |-> ks] :
               ks \in SUBSET {"update_id", "message"} }

\* A body check that lets an object without update_id through.
ValidateBody_any_object(body) ==
    IF ~body.parses
    THEN "Invalid JSON in request body"
    ELSE IF ~body.is_dict
         THEN "Body must be a JSON object"
         ELSE "ok"

\* Lines 88-119 of webhook: the error of the 400 response, or "ok".
ValidateBody(body) ==
    IF ~body.parses
    THEN "Invalid JSON in request body"
    ELSE IF ~body.is_dict
         THEN "Body must be a JSON object"
         ELSE IF "update_id" \notin body.keys
              THEN "Missing update_id in webhook payload"
              ELSE "ok"

\* The coroutine returns this response (the slot keeps it until it is sent).
Response(r, status_code, content) ==
    [r EXCEPT !.pc = "done", !.status_code = status_code, !.content = content]

\* The slot a new request takes, and the bound on the requests of a run.
Accepts(q) ==
    /\ call = "webhook"
    /\ http[q].pc = "idle"
    /\ \A other \in Requests : other < q => http[other].pc # "idle"
    /\ n_requests < MaxRequests

\* GET /health (lines 31-42): answers without looking at the bot.
health(q) ==
    /\ Accepts(q)
    /\ n_requests' = n_requests + 1
    /\ http' = [http EXCEPT ![q] =
                   Response([IdleRequest EXCEPT !.route = "health"], 200, "status ok")]
    /\ UNCHANGED <<env_TELEGRAM_BOT_TOKEN, env_OPENAI_API_KEY, bot_imported,
                   bot_application, _initialized, create_application_calls,
                   initialize_calls, initialize_returns>>
    /\ UNCHANGED <<botVars, fnVars>>

\* POST /webhook up to `await request.json()` (lines 80-89).
webhook(q, body) ==
    /\ Accepts(q)
    /\ n_requests' = n_requests + 1
    /\ LET me == [IdleRequest EXCEPT !.route = "webhook", !.body = body] IN
       http' = [http EXCEPT ![q] =
                   IF ~bot_imported
                   THEN Response(me, 500, "Bot module not available")
                   ELSE [me EXCEPT !.pc = "json"]]
    /\ UNCHANGED <<env_TELEGRAM_BOT_TOKEN, env_OPENAI_API_KEY, bot_imported,
                   bot_application, _initialized, create_application_calls,
                   initialize_calls, initialize_returns>>
    /\ UNCHANGED <<botVars, fnVars>>

\* webhook after get_application returned the application (lines 122-123):
\* Update.de_json, then the await of process_update.
AfterGetApplication(r, de_json_ok) ==
    IF de_json_ok
    THEN [r EXCEPT !.pc = "process_update", !.process_update_called = TRUE]
    ELSE Response(r, 500, "de_json error")

\* webhook from the return of request.json() to its next await (lines 89-121)
\* with get_application up to its await (lines 60-68).
json(q, de_json_ok) ==
    /\ call = "webhook"
    /\ http[q].pc = "json"
    /\ LET me == http[q]
           error == ValidateBody(me.body)
           create == bot_application = None
           made == create_application(env_TELEGRAM_BOT_TOKEN, env_OPENAI_API_KEY,
                                      create_application_calls + 1)
       IN  IF error # "ok"
           THEN /\ http' = [http EXCEPT ![q] = Response(me, 400, error)]
                /\ UNCHANGED <<bot_application, create_application_calls,
                               initialize_calls>>
           ELSE /\ create_application_calls' =
                       IF create THEN create_application_calls + 1
                       ELSE create_application_calls
                /\ IF create /\ "raised" \in DOMAIN made
                   THEN /\ http' = [http EXCEPT ![q] = Response(me, 500, made.raised)]
                        /\ UNCHANGED <<bot_application, initialize_calls>>
                   ELSE /\ bot_application' = IF create THEN made ELSE bot_application
                        /\ IF ~_initialized
                           THEN /\ http' = [http EXCEPT ![q] = [me EXCEPT !.pc = "initialize"]]
                                /\ initialize_calls' = initialize_calls + 1
                           ELSE /\ http' = [http EXCEPT ![q] =
                                               AfterGetApplication(me, de_json_ok)]
                                /\ UNCHANGED initialize_calls
    /\ UNCHANGED <<env_TELEGRAM_BOT_TOKEN, env_OPENAI_API_KEY, bot_imported,
                   _initialized, n_requests, initialize_returns>>
    /\ UNCHANGED <<botVars, fnVars>>

\* `await bot_application.initialize()` returns or raises (lines 68-70); after
\* it get_application sets _initialized and returns to webhook.
initialize(q, returns, de_json_ok) ==
    /\ call = "webhook"
    /\ http[q].pc = "initialize"
    /\ IF returns
       THEN /\ _initialized' = TRUE
            /\ initialize_returns' = initialize_returns + 1
            /\ http' = [http EXCEPT ![q] = AfterGetApplication(@, de_json_ok)]
       ELSE /\ http' = [http EXCEPT ![q] = Response(@, 500, "initialize error")]
            /\ UNCHANGED <<_initialized, initialize_returns>>
    /\ UNCHANGED <<env_TELEGRAM_BOT_TOKEN, env_OPENAI_API_KEY, bot_imported,
                   bot_application, n_requests, create_application_calls,
                   initialize_calls>>
    /\ UNCHANGED <<botVars, fnVars>>

\* `await application.process_update(update)` returns or raises (lines 123-130).
process_update(q, returns) ==
    /\ call = "webhook"
    /\ http[q].pc = "process_update"
    /\ http' = [http EXCEPT ![q] =
                   IF returns
                   THEN Response(@, 200, "ok True")
                   ELSE Response(@, 500, "process_update error")]
    /\ UNCHANGED <<env_TELEGRAM_BOT_TOKEN, env_OPENAI_API_KEY, bot_imported,
                   bot_application, _initialized, n_requests,
                   create_application_calls, initialize_calls, initialize_returns>>
    /\ UNCHANGED <<botVars, fnVars>>

\* The response is sent: the coroutine is gone.
Responded(q) ==
    /\ call = "webhook"
    /\ http[q].pc = "done"
    /\ http' = [http EXCEPT ![q] = IdleRequest]
    /\ UNCHANGED <<env_TELEGRAM_BOT_TOKEN, env_OPENAI_API_KEY, bot_imported,
                   bot_application, _initialized, n_requests,
                   create_application_calls, initialize_calls, initialize_returns>>
    /\ UNCHANGED <<botVars, fnVars>>

\* lambda_handler after import (lines 44-57): the bot module was imported or
\* not, no application yet; the credentials are whatever the environment holds.
InitWebhook ==
    /\ BotAtRest
    /\ env_TELEGRAM_BOT_TOKEN \in CredentialSettings
    /\ env_OPENAI_API_KEY \in CredentialSettings
    /\ bot_imported \in BOOLEAN
    /\ bot_application = None
    /\ _initialized = FALSE
    /\ http = [q \in Requests |-> IdleRequest]
    /\ n_requests = 0
    /\ create_application_calls = 0
    /\ initialize_calls = 0
    /\ initialize_returns = 0
    /\ arg_text = <<>>
    /\ arg_max_length = DEFAULT_MAX_LENGTH
    /\ result = <<>>
    /\ result2 = <<>>
    /\ call = "webhook"

NextWebhook ==
    \/ \E q \in Requests : health(q)
    \/ \E q \in Requests, body \in Bodies : webhook(q, body)
    \/ \E q \in Requests, d \in BOOLEAN : json(q, d)
    \/ \E q \in Requests, ok, d \in BOOLEAN : initialize(q, ok, d)
    \/ \E q \in Requests, ok \in BOOLEAN : process_update(q, ok)
    \/ \E q \in Requests : Responded(q)

SpecWebhook == InitWebhook /\ [][NextWebhook]_vars

(***************************************************************************)
(* Properties.                                                             *)
(***************************************************************************)
\* Task t runs get_or_create_conversation in this step and it returns a handle.
GetOrCreateReturns(t) ==
    /\ task[t].pc = "typing"
    /\ task'[t].conversation_id # NoConversation

\* Task t runs get_or_create_conversation in this step (send_chat_action did
\* not raise).
GetOrCreateCalled(t) ==
    /\ task[t].pc = "typing"
    /\ task'[t].pc # "typing"
    /\ ~(task'[t].pc = "done" /\ task'[t].outcome = "raised")

\* An update of this kind from user u is dispatched in this step, in slot t.
Dispatched(t, u, kind) ==
    /\ task[t].pc = "idle"
    /\ task'[t].pc # "idle"
    /\ task'[t].user = u
    /\ task'[t].kind = kind

\* The dict without u's entry.
Without(store, u) == [v \in DOMAIN store \ {u} |-> store[v]]

\* The sender is not the configured user, by the value of the global alone.
NotAllowed(u) == ALLOWED_USER_ID # None /\ ALLOWED_USER_ID # PyInt(u)

\* C1: a call of get_or_create_conversation stores the handle it returns; a
\* stored handle stays until that user's /newchat; and a call for a user with a
\* stored handle returns that handle, makes no conversation-creation call and
\* leaves the dict and the upstream conversations as they were.  So of two calls
\* in sequence with no /newchat between them, the second returns the first's
\* handle and only the first can have created a conversation.
C1_SecondCallIsCacheHit ==
    [][ /\ \A t \in Tasks : GetOrCreateReturns(t) =>
              LET u == task[t].user
                  h == task'[t].conversation_id
              IN  /\ u \in DOMAIN user_conversations'
                  /\ user_conversations'[u] = h
                  /\ u \in DOMAIN user_conversations =>
                        /\ h = user_conversations[u]
                        /\ ~task'[t].create_called
                        /\ UNCHANGED <<user_conversations, conversations>>
                  /\ u \notin DOMAIN user_conversations =>
                        /\ task'[t].create_called
                        /\ Len(conversations') = Len(conversations) + 1
        /\ \A u \in DOMAIN user_conversations :
              \/ /\ u \in DOMAIN user_conversations'
                 /\ user_conversations'[u] = user_conversations[u]
              \/ \E t \in Tasks : Dispatched(t, u, "newchat")
      ]_vars

\* C1 witness: a handler was served from the dict (it holds a handle and made no
\* creation call), the handle being the one conversation created so far, for
\* that user.
C1_Witness ==
    \E t \in Tasks :
        /\ task[t].conversation_id = 1
        /\ ~task[t].create_called
        /\ task[t].request # None
        /\ Len(conversations) = 1
        /\ conversations[1].for = task[t].user

\* C2: /newchat from a user with a stored handle removes that user's entry and
\* no other; the entry then stays absent until a message of that user runs
\* get_or_create_conversation; and that message, finding no entry, makes one
\* creation call seeded with the system instruction, stores the fresh handle, and
\* makes its completion call, if any, on that handle (none when creation raised).
C2_NewchatThenFreshConversation ==
    [][ /\ \A t \in Tasks, u \in Users :
              (Dispatched(t, u, "newchat") /\ u \in DOMAIN user_conversations) =>
                  user_conversations' = Without(user_conversations, u)
        /\ \A u \in Users :
              (u \notin DOMAIN user_conversations /\ u \in DOMAIN user_conversations') =>
                  \E t \in Tasks : GetOrCreateCalled(t) /\ task[t].user = u
        /\ \A t \in Tasks :
              (GetOrCreateCalled(t) /\ task[t].user \notin DOMAIN user_conversations) =>
                  LET u == task[t].user
                      fresh == Len(conversations) + 1
                  IN  /\ task'[t].create_called
                      /\ \/ /\ conversations' =
                                  Append(conversations, [items |-> SeedItems, for |-> u])
                            /\ user_conversations' =
                                  [v \in DOMAIN user_conversations \cup {u} |->
                                      IF v = u THEN fresh ELSE user_conversations[v]]
                            /\ task'[t].conversation_id = fresh
                            /\ task'[t].request # None
                            /\ task'[t].request.conversation = fresh
                         \/ /\ UNCHANGED <<conversations, user_conversations>>
                            /\ task'[t].conversation_id = NoConversation
                            /\ task'[t].request = None
                            /\ task'[t].pc = "apology"
      ]_vars

\* C2 witness: a message handler created the second conversation for a user for
\* whom the first was created too (so /newchat removed the first in between),
\* and made its completion call on it.
C2_Witness ==
    \E t \in Tasks :
        /\ task[t].kind = "text"
        /\ task[t].create_called
        /\ task[t].conversation_id = 2
        /\ task[t].request # None
        /\ Len(conversations) = 2
        /\ conversations[1].for = task[t].user
        /\ conversations[2].for = task[t].user
        /\ user_conversations[task[t].user] = 2

\* C3: when newchat_command runs (the sender passed the gate), a user with no
\* stored handle gets the "nothing to clear" reply and the dict is unchanged; a
\* user with a stored handle gets the "cleared" reply and exactly that user's
\* entry is removed.
C3_NewchatReplyAndStore ==
    [][ \A t \in Tasks, u \in Users :
            (Dispatched(t, u, "newchat") /\ ~NotAllowed(u)) =>
                /\ task'[t].pc = "reply"
                /\ IF u \in DOMAIN user_conversations
                   THEN /\ task'[t].reply = "cleared"
                        /\ user_conversations' = Without(user_conversations, u)
                   ELSE /\ task'[t].reply = "nothing_to_clear"
                        /\ user_conversations' = user_conversations
      ]_vars

\* C3 witness: a /newchat answered "cleared" while another user's entry is still
\* in the dict.
C3_Witness ==
    \E t \in Tasks :
        /\ task[t].kind = "newchat"
        /\ task[t].reply = "cleared"
        /\ task[t].user \notin DOMAIN user_conversations
        /\ DOMAIN user_conversations # {}

\* C4: a handler started for a sender who is not allowed only ever awaits and
\* sends the refusal: it calls neither conversations.create nor
\* responses.create, and no step of it changes the dict or the upstream
\* conversations, whichever of the four entry points it came through.
C4_RefusalOnly ==
    /\ [](\A t \in Tasks :
             (task[t].pc # "idle" /\ NotAllowed(task[t].user)) =>
                 /\ task[t].pc \in {"reply", "done"}
                 /\ task[t].reply = "refusal"
                 /\ ~task[t].create_called
                 /\ task[t].conversation_id = NoConversation
                 /\ task[t].request = None
                 /\ task[t].sent \in {<<>>, << <<"refusal", 0>> >>})
    /\ [][ \A t \in Tasks :
             (task'[t] # task[t] /\ task'[t].pc # "idle" /\ NotAllowed(task'[t].user)) =>
                 UNCHANGED <<user_conversations, conversations>>
         ]_vars

\* C4 witness: with a stored handle in the dict, /newchat and a text message of a
\* sender who is not allowed have both been answered with the refusal.
C4_Witness ==
    \E t1, t2 \in Tasks :
        /\ NotAllowed(task[t1].user) /\ NotAllowed(task[t2].user)
        /\ task[t1].kind = "newchat" /\ task[t2].kind = "text"
        /\ task[t1].sent = << <<"refusal", 0>> >>
        /\ task[t2].sent = << <<"refusal", 0>> >>
        /\ DOMAIN user_conversations # {}

\* The identifiers is_user_allowed admits.
Admitted == {u \in Users : is_user_allowed(u)}

\* C5: under every setting of ALLOWED_USER_ID (unset, empty, an integer string)
\* is_user_allowed admits every identifier, or exactly the configured one.
C5_AllOrExactlyOne ==
    \/ Admitted = Users
    \/ /\ IsStr(env_ALLOWED_USER_ID)
       /\ env_ALLOWED_USER_ID.str # <<>>
       /\ Admitted = {int(env_ALLOWED_USER_ID.str)}

\* The chunks joined in order.
RECURSIVE Joined(_)
Joined(chunks) ==
    IF chunks = <<>> THEN <<>> ELSE Head(chunks) \o Joined(Tail(chunks))

\* The text with its whitespace left out.
NonWhitespace(t) == SelectSeq(t, LAMBDA c : c \notin Whitespace)

\* C6: every chunk split_message returns has at most max_length characters,
\* whatever the lengths of the lines and words of the text.
C6_EveryChunkFits ==
    call = "split_message" =>
        \A i \in 1..Len(result) : Len(result[i]) <= arg_max_length

TextHasLink(t) ==
    \E j \in 1..Len(t) :
        /\ t[j] = "]"
        /\ j + 1 <= Len(t)
        /\ t[j + 1] = "("
        /\ \E i \in 1..(j - 2) :
              t[i] = "[" /\ \A m \in (i + 1)..(j - 1) : t[m] # "]"
        /\ \E k \in (j + 3)..Len(t) :
              t[k] = ")" /\ \A m \in (j + 2)..(k - 1) : t[m] # ")"

\* The text contains a URL token: http://, https:// or www. followed by a
\* character that is neither whitespace nor "<" nor ")".
TextHasUrl(t) ==
    \E i \in 1..Len(t) :
        \E prefix \in { <<"h", "t", "t", "p", ":", "/", "/">>,
                        <<"h", "t", "t", "p", "s", ":", "/", "/">>,
                        <<"w", "w", "w", ".">> } :
            /\ i + Len(prefix) <= Len(t)
            /\ SubSeq(t, i, i + Len(prefix) - 1) = prefix
            /\ t[i + Len(prefix)] \notin {" ", "\n", "\t", "<", ")"}

\* out is t without its leading and trailing whitespace.
IsTrimOf(out, t) ==
    \E i \in 0..Len(t), j \in 0..Len(t) :
        /\ i <= j
        /\ out = SubSeq(t, i + 1, j)
        /\ \A m \in 1..i : t[m] \in {" ", "\n", "\t"}
        /\ \A m \in (j + 1)..Len(t) : t[m] \in {" ", "\n", "\t"}
        /\ out = <<>> \/ (out[1] \notin {" ", "\n", "\t"}
                            /\ out[Len(out)] \notin {" ", "\n", "\t"})

\* C8 as stated: a text with no markdown link and no URL token is returned
\* unchanged, character for character.
C8_Identity ==
    (call # "none" /\ ~TextHasLink(arg_text) /\ ~TextHasUrl(arg_text)) =>
        result = arg_text

\* C8 amended: a text with no markdown link and no URL token is returned with
\* its leading and trailing whitespace removed and otherwise unchanged.
C8_Trimmed ==
    (call # "none" /\ ~TextHasLink(arg_text) /\ ~TextHasUrl(arg_text)) =>
        IsTrimOf(result, arg_text)

\* C8 witness: a text with brackets but no link and no URL token, with a
\* trailing space, was cleaned.
C8_Witness ==
    /\ call = "clean_response"
    /\ ~TextHasLink(arg_text) /\ ~TextHasUrl(arg_text)
    /\ arg_text = <<"[", "a", " ">>
    /\ result = <<"[", "a">>

\* C9: clean_response is idempotent.
C9_Idempotent ==
    call = "clean_response_twice" => result2 = result

\* C10: every markdown link of the input is replaced by its label, so that no
\* markdown link is left in the output; and an input that is one link around a
\* non-empty label without links and URL tokens gives that label (trimmed).
C10_NoLinkRemains ==
    call # "none" =>
        /\ ~TextHasLink(result)
        /\ \A label \in TokenTexts(MaxTokens), u \in LinkTargets :
              (arg_text = MarkdownLink(label, u)
                  /\ label # <<>>
                  /\ ~TextHasLink(label) /\ ~TextHasUrl(label)
                  /\ \A m \in 1..Len(label) : label[m] # "]") =>
                      IsTrimOf(result, label)

\* C11: the output of clean_response contains no http://, https:// or www.
\* followed by a character that is neither whitespace nor "<" nor ")", also
\* when the token only comes into being by the removal of a link or of another
\* URL, which joins the text on both sides of what is removed.
C11_NoUrlRemains ==
    /\ call # "none" => ~TextHasUrl(result)
    /\ call = "clean_response_twice" => ~TextHasUrl(result2)

\* C11 witness: a text without any URL token, in which removing the link puts
\* one together ("w[ww.](b)a" gives "www.a"), was cleaned.
C11_Witness ==
    /\ call = "clean_response"
    /\ ~TextHasUrl(arg_text)
    /\ TextHasUrl(SubLinks(arg_text, 1))
    /\ ~TextHasUrl(result)

\* The handler in slot t got an exception from conversations.create (no handle
\* came back) or from responses.create (the request was made, no response came).
CallRaised(t) ==
    /\ task[t].response = 0
    /\ \/ task[t].create_called /\ task[t].conversation_id = NoConversation
       \/ task[t].request # None

\* The replies of the handler in slot t that are chunks of a response.
ChunksSent(t) ==
    SelectSeq(task[t].sent, LAMBDA m : m[1] \in {"html", "plain"})

\* C12 as stated: when conversations.create or responses.create raises, the
\* handler makes no further call of either, delivers no chunk, sends the apology
\* exactly once, and no exception leaves the handler.
C12_ApologySentNothingPropagates ==
    \A t \in Tasks :
        CallRaised(t) =>
            /\ task[t].pc \in {"apology", "done"}
            /\ ChunksSent(t) = <<>>
            /\ task[t].pc = "done" =>
                  /\ task[t].sent = << <<"apology", 0>> >>
                  /\ task[t].outcome = "returned"

\* C12 amended: when conversations.create or responses.create raises, the
\* handler makes no further call of either (its next and only step is the
\* apology's reply_text), delivers no chunk, and calls reply_text with the
\* apology exactly once; it returns normally when the apology was delivered,
\* and an exception leaves it exactly when the apology's reply_text raised.
C12_OneApologyAttempt ==
    /\ [](\A t \in Tasks :
             CallRaised(t) =>
                 /\ task[t].pc \in {"apology", "done"}
                 /\ ChunksSent(t) = <<>>
                 /\ task[t].pc = "apology" => task[t].sent = <<>>
                 /\ task[t].pc = "done" =>
                       \/ /\ task[t].outcome = "returned"
                          /\ task[t].sent = << <<"apology", 0>> >>
                       \/ /\ task[t].outcome = "raised"
                          /\ task[t].sent = <<>>)
    /\ [][ \A t \in Tasks : (~CallRaised(t) /\ CallRaised(t)') => task'[t].pc = "apology" ]_vars
    /\ [][ \A t \in Tasks :
             (CallRaised(t) /\ task'[t] # task[t] /\ task'[t].pc # "idle") =>
                 /\ task[t].pc = "apology"
                 /\ task'[t].pc = "done"
                 /\ task'[t].request = task[t].request
                 /\ task'[t].create_called = task[t].create_called
                 /\ UNCHANGED <<user_conversations, conversations>>
         ]_vars

\* C12 witness: one handler's completion call raised and its apology was
\* delivered; the other's conversation creation raised and its apology is due.
C12_Witness ==
    \E t1, t2 \in Tasks :
        /\ CallRaised(t1) /\ task[t1].request # None
        /\ task[t1].sent = << <<"apology", 0>> >>
        /\ task[t1].outcome = "returned"
        /\ CallRaised(t2) /\ task[t2].request = None
        /\ task[t2].pc = "apology"

\* C13: a completion request declares the web-search tool exactly when it comes
\* from /search with a query; a text message's request declares no tool; and a
\* /search without a query that passed the gate only ever sends the usage
\* reply: it calls neither conversations.create nor responses.create, and no
\* step of it changes the dict or the upstream conversations.
C13_SearchToolIffSearchQuery ==
    /\ [](\A t \in Tasks :
             /\ task[t].request # None =>
                   /\ task[t].kind \in {"text", "search"}
                   /\ task[t].kind = "search" => task[t].args
                   /\ (task[t].request.tools = <<"web_search">>)
                          <=> (task[t].kind = "search" /\ task[t].args)
                   /\ task[t].kind = "text" => task[t].request.tools = <<>>
             /\ (task[t].kind = "search" /\ ~task[t].args /\ ~NotAllowed(task[t].user)) =>
                   /\ task[t].pc \in {"reply", "done"}
                   /\ task[t].reply = "usage"
                   /\ task[t].request = None
                   /\ ~task[t].create_called
                   /\ task[t].sent \in {<<>>, << <<"usage", 0>> >>})
    /\ [][ \A t \in Tasks :
             (task'[t] # task[t] /\ task'[t].kind = "search" /\ ~task'[t].args) =>
                 UNCHANGED <<user_conversations, conversations>>
         ]_vars

\* C13 witness: a /search with a query made its completion request, declaring
\* the tool, while a /search without a query was answered with the usage reply.
C13_Witness ==
    \E t1, t2 \in Tasks :
        /\ task[t1].kind = "search" /\ task[t1].args
        /\ task[t1].request # None
        /\ task[t1].request.tools = <<"web_search">>
        /\ task[t2].kind = "search" /\ ~task[t2].args
        /\ task[t2].sent = << <<"usage", 0>> >>
        /\ task[t2].outcome = "returned"

\* The body is not JSON, not an object, or an object without update_id.
Malformed(body) ==
    ~body.parses \/ ~body.is_dict \/ "update_id" \notin body.keys

\* The descriptive message the 400 response carries for a malformed body.
ClientError(body) ==
    IF ~body.parses THEN "Invalid JSON in request body"
    ELSE IF ~body.is_dict THEN "Body must be a JSON object"
    ELSE "Missing update_id in webhook payload"

\* C14 as stated: a POST /webhook with a malformed body is answered with 400 and
\* the message for its defect, whether or not the bot module was imported, and
\* never reaches process_update, which is only invoked for a JSON object with
\* update_id.
C14_MalformedIs400Always ==
    \A q \in Requests :
        /\ (http[q].route = "webhook" /\ Malformed(http[q].body)) =>
              /\ ~http[q].process_update_called
              /\ http[q].pc \in {"json", "done"}
              /\ http[q].pc = "done" =>
                    /\ http[q].status_code = 400
                    /\ http[q].content = ClientError(http[q].body)
        /\ http[q].process_update_called =>
              /\ http[q].body.parses /\ http[q].body.is_dict
              /\ "update_id" \in http[q].body.keys

\* C14 amended: when the bot module was imported, a POST /webhook with a
\* malformed body is answered with 400 and the message for its defect; when
\* the import failed, every POST /webhook is answered with 500 "Bot module not
\* available" before its body is read.  In both cases a malformed body never
\* reaches get_application or process_update, and process_update is only
\* invoked, with the bot module imported, for a JSON object with update_id.
C14_MalformedIs400WhenImported ==
    /\ [](\A q \in Requests :
             /\ (http[q].route = "webhook" /\ Malformed(http[q].body)) =>
                   /\ ~http[q].process_update_called
                   /\ http[q].pc \in {"json", "done"}
                   /\ http[q].pc = "done" =>
                         IF bot_imported
                         THEN /\ http[q].status_code = 400
                              /\ http[q].content = ClientError(http[q].body)
                         ELSE /\ http[q].status_code = 500
                              /\ http[q].content = "Bot module not available"
             /\ (http[q].route = "webhook" /\ ~bot_imported) =>
                   /\ http[q].pc = "done"
                   /\ http[q].status_code = 500
                   /\ http[q].content = "Bot module not available"
             /\ http[q].process_update_called =>
                   /\ bot_imported
                   /\ http[q].body.parses /\ http[q].body.is_dict
                   /\ "update_id" \in http[q].body.keys)
    /\ [][ \A q \in Requests :
             (http[q].route = "webhook" /\ Malformed(http[q].body) /\ http'[q] # http[q]) =>
                 UNCHANGED <<bot_application, _initialized, create_application_calls,
                             initialize_calls, initialize_returns>>
         ]_vars

\* C14 witness: with the bot module imported and the application initialized,
\* an object without update_id was answered with 400 while a request for an
\* object with update_id is inside process_update.
C14_Witness ==
    \E q1, q2 \in Requests :
        /\ bot_imported /\ _initialized
        /\ http[q1].route = "webhook"
        /\ http[q1].body = [parses |-> TRUE, is_dict |-> TRUE, keys |-> {"message"}]
        /\ http[q1].status_code = 400
        /\ http[q1].content = "Missing update_id in webhook payload"
        /\ http[q2].pc = "process_update"

\* A required credential is absent: create_application would raise.
CredentialMissing == Missing(env_TELEGRAM_BOT_TOKEN) \/ Missing(env_OPENAI_API_KEY)

\* The ValueError create_application raises in this environment.
CredentialError ==
    IF Missing(env_TELEGRAM_BOT_TOKEN)
    THEN "TELEGRAM_BOT_TOKEN not found in environment variables!"
    ELSE "OPENAI_API_KEY not found in environment variables!"

\* C15 as stated: with a required credential absent the process does not
\* serve: no /health and no /webhook request is ever answered.
C15_MissingCredentialNeverServes ==
    CredentialMissing =>
        \A q \in Requests : http[q].pc # "done"

\* C15 amended: with a required credential absent the process still serves:
\* /health is answered with 200, and a POST /webhook with a well-formed body
\* (bot module imported) calls create_application, which raises, and is
\* answered with 500 carrying the ValueError's text.  No application is ever
\* built, so initialize() and process_update are never called, and every such
\* request calls create_application again.
C15_MissingCredentialServesErrors ==
    /\ [](CredentialMissing =>
             /\ bot_application = None
             /\ ~_initialized
             /\ initialize_calls = 0
             /\ \A q \in Requests :
                   /\ http[q].pc \in {"idle", "json", "done"}
                   /\ ~http[q].process_update_called
                   /\ (http[q].pc = "done" /\ http[q].route = "health") =>
                          http[q].status_code = 200
                   /\ (http[q].pc = "done" /\ http[q].route = "webhook"
                          /\ bot_imported /\ ~Malformed(http[q].body)) =>
                          /\ http[q].status_code = 500
                          /\ http[q].content = CredentialError)
    /\ [][ \A q \in Requests :
             (CredentialMissing /\ http[q].pc = "json" /\ http'[q].pc = "done"
                 /\ ~Malformed(http[q].body)) =>
                 create_application_calls' = create_application_calls + 1
         ]_vars

\* C15 witness: with the token set and the API key unset, /health was answered
\* with 200 and a well-formed POST /webhook with 500 and the ValueError's text.
C15_Witness ==
    \E q1, q2 \in Requests :
        /\ env_TELEGRAM_BOT_TOKEN = PyStr(<<"k">>)
        /\ env_OPENAI_API_KEY = None
        /\ http[q1].route = "health"
        /\ http[q1].status_code = 200
        /\ http[q2].route = "webhook"
        /\ ~Malformed(http[q2].body)
        /\ http[q2].status_code = 500
        /\ http[q2].content = "OPENAI_API_KEY not found in environment variables!"
        /\ create_application_calls = 1

\* C16 as stated, for every pair it speaks of: of two message handlers for the
\* same user that both entered send_to_openai while the user had no stored
\* handle, the second to run get_or_create_conversation takes the miss path as
\* the first did: it calls conversations.create too, and its store write
\* replaces the handle the first stored.
C16_BothTakeMissPath ==
    [][ \A t1, t2 \in Tasks :
            ( /\ t1 # t2
              /\ task[t1].user = task[t2].user
              /\ task[t1].entered_without_handle /\ task[t2].entered_without_handle
              /\ task[t1].create_called /\ task[t1].conversation_id # NoConversation
              /\ task[t1].pc # "done"
              /\ GetOrCreateReturns(t2) ) =>
                /\ task'[t2].create_called
                /\ user_conversations'[task[t2].user] # task[t1].conversation_id
      ]_vars

\* C16 amended: get_or_create_conversation runs from its lookup to its store
\* write without suspending, so no interleaving loses an update: a creation
\* call is only made for a user without a stored handle, no step replaces a
\* stored handle by another, and of two handlers for the same user that both
\* entered send_to_openai while the user had no stored handle, the second to
\* run get_or_create_conversation is served the handle the first stored and
\* makes no creation call (unless a /newchat removed that handle in between).
C16_NoLostUpdate ==
    [][ /\ \A u \in DOMAIN user_conversations :
              u \in DOMAIN user_conversations' =>
                  user_conversations'[u] = user_conversations[u]
        /\ \A t \in Tasks :
              (task[t].pc = "typing" /\ task'[t].create_called) =>
                  task[t].user \notin DOMAIN user_conversations
        /\ \A t1, t2 \in Tasks :
              ( /\ t1 # t2
                /\ task[t1].user = task[t2].user
                /\ task[t1].entered_without_handle /\ task[t2].entered_without_handle
                /\ task[t1].create_called /\ task[t1].conversation_id # NoConversation
                /\ task[t1].pc # "done"
                /\ task[t1].user \in DOMAIN user_conversations
                /\ GetOrCreateCalled(t2) ) =>
                  /\ ~task'[t2].create_called
                  /\ task'[t2].conversation_id = task[t1].conversation_id
                  /\ UNCHANGED <<user_conversations, conversations>>
      ]_vars

\* C16 witness: two handlers for the same user both entered send_to_openai
\* while the user had no stored handle and both are past
\* get_or_create_conversation: one created the conversation, the other was
\* served its handle, and it is the only conversation created.
C16_Witness ==
    \E t1, t2 \in Tasks :
        /\ t1 # t2
        /\ task[t1].user = task[t2].user
        /\ task[t1].entered_without_handle /\ task[t2].entered_without_handle
        /\ task[t1].create_called /\ task[t1].conversation_id = 1
        /\ ~task[t2].create_called /\ task[t2].conversation_id = 1
        /\ task[t1].pc # "done" /\ task[t2].pc # "done"
        /\ Len(conversations) = 1

\* The chunks of the response the handler in slot t got.
ChunksOf(t) == OutputChunks[task[t].response]

\* The text holds a tag: a "<", at least one character other than ">", a ">".
HasTag(text) ==
    \E i \in 1..Len(text) :
        /\ text[i] = "<"
        /\ \E j \in (i + 2)..Len(text) :
              text[j] = ">" /\ \A m \in (i + 1)..(j - 1) : text[m] # ">"

\* Every plain_text is its chunk without the tags: it holds no tag, it is the
\* chunk itself when the chunk holds none and shorter when it holds one, and
\* the text before the chunk's first "<" is kept as it is.
PlainChunksHoldNoTag ==
    \A r \in 1..Len(ModelOutputs) : \A i \in 1..Len(OutputChunks[r]) :
        LET chunk == OutputChunks[r][i]
            plain == PlainChunks[r][i]
            k == FirstIndex(chunk, 1, {"<"})
        IN  /\ ~HasTag(plain)
            /\ IF HasTag(chunk) THEN Len(plain) < Len(chunk) ELSE plain = chunk
            /\ k > 0 => SubSeq(plain, 1, k - 1) = SubSeq(chunk, 1, k - 1)

\* C17 as stated: the chunks are delivered in order, each first with HTML
\* rendering; a chunk whose HTML reply fails is resent as plain text without
\* its tags; and every chunk of the response is attempted: once the handler
\* is past the chunk loop, the last chunk attempted is the last chunk.
C17_EveryChunkAttempted ==
    \A t \in Tasks :
        task[t].response # 0 =>
            /\ \A j \in 1..Len(ChunksSent(t)) : ChunksSent(t)[j][2] = j
            /\ task[t].pc = "send_plain" =>
                  /\ task[t].plain_text = PlainChunks[task[t].response][task[t].i]
                  /\ PlainChunksHoldNoTag
            /\ task[t].pc \in {"apology", "done"} => task[t].i = Len(ChunksOf(t))

\* C17 amended: the chunks are delivered in order, each first with HTML
\* rendering.  When the HTML reply of chunk i raises, exactly that chunk is
\* resent as plain text without its tags; when the resend is delivered, the
\* loop goes on with chunk i + 1, again with HTML rendering, or ends after the
\* last chunk; when the resend raises too, no further chunk is attempted and
\* the handler goes on to the apology.
C17_PerChunkFallback ==
    /\ [](\A t \in Tasks :
             task[t].response # 0 =>
                 /\ \A j \in 1..Len(ChunksSent(t)) : ChunksSent(t)[j][2] = j
                 /\ Len(ChunksSent(t)) \in {task[t].i - 1, task[t].i}
                 /\ task[t].pc \in {"send_html", "send_plain", "apology"} =>
                       Len(ChunksSent(t)) = task[t].i - 1
                 /\ task[t].pc = "send_plain" =>
                       /\ task[t].plain_text = PlainChunks[task[t].response][task[t].i]
                       /\ PlainChunksHoldNoTag
                 /\ (task[t].pc = "done" /\ task[t].outcome = "returned"
                        /\ ChunksSent(t) = task[t].sent) =>
                       /\ task[t].i = Len(ChunksOf(t))
                       /\ Len(task[t].sent) = task[t].i)
    /\ [][ \A t \in Tasks :
             LET a == task[t]
                 b == task'[t]
                 last == Len(OutputChunks[a.response])
             IN  (a.response # 0 /\ b # a /\ b.pc # "idle") =>
                   /\ a.pc = "send_html" =>
                         \/ /\ b.sent = Append(a.sent, <<"html", a.i>>)
                            /\ IF a.i < last
                               THEN b.pc = "send_html" /\ b.i = a.i + 1
                               ELSE b.pc = "done" /\ b.i = a.i
                         \/ /\ b.pc = "send_plain"
                            /\ b.i = a.i /\ b.sent = a.sent
                   /\ a.pc = "send_plain" =>
                         \/ /\ b.sent = Append(a.sent, <<"plain", a.i>>)
                            /\ IF a.i < last
                               THEN b.pc = "send_html" /\ b.i = a.i + 1
                               ELSE b.pc = "done" /\ b.i = a.i
                         \/ /\ b.pc = "apology"
                            /\ b.i = a.i /\ b.sent = a.sent
                   /\ a.pc = "apology" => b.pc = "done" /\ b.i = a.i
         ]_vars

\* C17 witness: of a response of two chunks the first was resent as plain text
\* after its HTML reply failed, and the second was then delivered with HTML.
C17_Witness ==
    \E t \in Tasks :
        /\ task[t].response # 0
        /\ Len(ChunksOf(t)) = 2
        /\ HasTag(ChunksOf(t)[1])
        /\ task[t].sent = << <<"plain", 1>>, <<"html", 2>> >>
        /\ task[t].outcome = "returned"

\* response_text after clean_response (line 192), for every answer.
CleanedOutputs ==
    [r \in 1..Len(ModelOutputs) |-> clean_response(ModelOutputs[r])]

\* The handler in slot t got an answer whose text is empty once cleaned.
EmptyOutput(t) ==
    /\ task[t].response # 0
    /\ CleanedOutputs[task[t].response] = <<>>

\* C18 as stated: an output text that is empty, or empty once cleaned, is one
\* empty chunk; exactly one delivery of it is attempted (there is no second
\* attempt), and no apology follows.
C18_OneEmptyDelivery ==
    \A t \in Tasks :
        EmptyOutput(t) =>
            /\ ChunksOf(t) = << <<>> >>
            /\ task[t].pc \in {"send_html", "done"}
            /\ task[t].sent \in {<<>>, << <<"html", 1>> >>}

\* C18 amended: an output text that is empty, or empty once cleaned, is not an
\* error to send_to_openai: split_message makes it one empty chunk, whose
\* delivery is attempted with HTML rendering; when that reply is accepted the
\* handler returns and nothing else is sent.  When it raises, the empty text
\* is sent a second time, as plain text; only when that raises too does the
\* handler go on to the apology.
C18_EmptyChunkSentLikeAnyOther ==
    /\ [](/\ clean_response(<<>>) = <<>>
          /\ split_message(<<>>, DEFAULT_MAX_LENGTH) = << <<>> >>
          /\ \A t \in Tasks :
                EmptyOutput(t) =>
                    /\ ChunksOf(t) = << <<>> >>
                    /\ task[t].i = 1
                    /\ task[t].pc \in {"send_html", "send_plain", "apology", "done"}
                    /\ task[t].pc = "send_plain" => task[t].plain_text = <<>>
                    /\ task[t].pc \in {"send_html", "send_plain", "apology"} =>
                          task[t].sent = <<>>
                    /\ task[t].pc = "done" =>
                          \/ /\ task[t].sent \in {<< <<"html", 1>> >>, << <<"plain", 1>> >>,
                                                   << <<"apology", 0>> >>}
                             /\ task[t].outcome = "returned"
                          \/ /\ task[t].sent = <<>>
                             /\ task[t].outcome = "raised")
    /\ [][ \A t \in Tasks :
             LET a == task[t]
                 b == task'[t]
             IN  (EmptyOutput(t) /\ b # a /\ b.pc # "idle") =>
                   /\ a.pc = "send_html" =>
                         \/ b.pc = "done" /\ b.sent = << <<"html", 1>> >>
                         \/ b.pc = "send_plain"
                   /\ a.pc = "send_plain" =>
                         \/ b.pc = "done" /\ b.sent = << <<"plain", 1>> >>
                         \/ b.pc = "apology"
                   /\ b.pc = "apology" => a.pc = "send_plain"
         ]_vars

\* C18 witness: an answer that is not empty but is empty once cleaned was
\* delivered as one empty message with HTML rendering, and the handler returned.
C18_Witness ==
    \E t \in Tasks :
        /\ EmptyOutput(t)
        /\ ModelOutputs[task[t].response] # <<>>
        /\ task[t].sent = << <<"html", 1>> >>
        /\ task[t].outcome = "returned"

\* The requests suspended in `await bot_application.initialize()`.
InInitialize == {q \in Requests : http[q].pc = "initialize"}

\* C19: across any interleaving of /webhook requests in one process,
\* get_application calls create_application at most once, initialize() returns
\* successfully at most once, and no request starts an initialization while
\* another request is suspended inside initialize(); a failed initialize()
\* leaves _initialized false.
C19_CreatedAndInitializedOnce ==
    /\ create_application_calls <= 1
    /\ initialize_returns <= 1
    /\ Cardinality(InInitialize) <= 1
    /\ initialize_returns = 0 => ~_initialized

\* Task t takes a step inside send_to_openai.
SendToOpenaiStep(t) ==
    /\ task[t].pc \in {"typing", "send_html", "send_plain", "apology"}
    /\ task'[t] # task[t]

\* Task t's step made a conversation-creation call that answered.
CreationSucceeded(t) ==
    /\ task[t].pc = "typing"
    /\ task'[t].create_called
    /\ task'[t].conversation_id # NoConversation

\* C20: a step of send_to_openai changes the user->handle dict only by a
\* successful conversation creation, which adds that user's entry.  When the
\* creation call raises, the dict is unchanged.  When creation succeeds and
\* the completion call then raises, or a delivery fails afterwards, the new
\* handle stays stored; so the user's next message (absent a /newchat of
\* that user) finds it, returns it and makes no further creation call.
C20_StoreChangesOnlyOnCreation ==
    [][ /\ \A t \in Tasks : SendToOpenaiStep(t) =>
              LET u == task[t].user
                  h == task'[t].conversation_id
              IN  /\ ~CreationSucceeded(t) =>
                        UNCHANGED <<user_conversations, conversations>>
                  /\ CreationSucceeded(t) =>
                        /\ u \notin DOMAIN user_conversations
                        /\ DOMAIN user_conversations' = DOMAIN user_conversations \cup {u}
                        /\ user_conversations'[u] = h
                        /\ \A v \in DOMAIN user_conversations :
                              user_conversations'[v] = user_conversations[v]
                        /\ Len(conversations') = Len(conversations) + 1
                  \* creation succeeded, the completion call raised
                  /\ (CreationSucceeded(t) /\ task'[t].pc = "apology") =>
                        /\ task'[t].response = 0
                        /\ user_conversations'[u] = h
                  \* a message of a user whose handle is stored reuses it
                  /\ (task[t].pc = "typing" /\ task'[t].pc # "done"
                        /\ u \in DOMAIN user_conversations) =>
                        /\ h = user_conversations[u]
                        /\ ~task'[t].create_called
        /\ \A u \in DOMAIN user_conversations :
              \/ /\ u \in DOMAIN user_conversations'
                 /\ user_conversations'[u] = user_conversations[u]
              \/ \E t \in Tasks : Dispatched(t, u, "newchat")
      ]_vars

\* C20 witness: a handler created a conversation and its completion call
\* raised (it is at the apology); a later message of the same user was served
\* from the dict with that handle and made no creation call.
C20_Witness ==
    \E t1, t2 \in Tasks :
        /\ t1 # t2
        /\ task[t1].pc = "apology"
        /\ task[t1].create_called
        /\ task[t1].conversation_id # NoConversation
        /\ task[t1].response = 0
        /\ task[t2].user = task[t1].user
        /\ task[t2].conversation_id = task[t1].conversation_id
        /\ ~task[t2].create_called
        /\ task[t2].request # None
        /\ Len(conversations) = 1

====
